---- MODULE Spec2Model ----
(***************************************************************************)
(* Hover translation of the content script (src/src/content/content.ts):   *)
(* the paragraph locator, the target resolver, the overlay controller, the *)
(* translation orchestration (checkAndTranslate) and the shortcut state    *)
(* machine, as one state machine over a small page.                        *)
(*                                                                         *)
(* Elements are records [node, ov, at]: El(n) is the page element named n, *)
(* Part(x, k, p) is part p ("root", "content", "close") of the k-th        *)
(* overlay behind page element x.                                          *)
(***************************************************************************)
EXTENDS Integers, Sequences, FiniteSets, TLC

VARIABLES
    \* the page: static structure of the document
    tagName,              \* node -> Element.tagName
    parentElement,        \* node -> name of the parent node, or "null"
    innerText,            \* node -> rendered text [core, n, pad]
    \* overlays in the DOM
    after,                \* node -> the overlays that follow it, farthest first
    \* module-level state of the content script
    translateModeActive,
    currentHoverElement,
    translatingElement,
    translateShortcut,
    providerConfig,
    configLoaded,
    translatedTexts,
    shortcutPressTimer,   \* whether the timer handle is set
    timers,               \* the timers of setTimeout not yet fired or cleared
    firstInteraction,     \* armed onFirstInteraction listeners
    \* asynchronous work in flight
    loads,                \* chrome.storage.sync.get calls not yet answered
    waiters,              \* checkAndTranslate calls suspended on their load
    flights,              \* translation requests in flight, a bag
    \* environment
    selection,            \* window.getSelection()
    keysDown,             \* keys physically held
    storage,              \* what chrome.storage.sync holds
    armedKey,             \* the key whose keydown started the pending timer
    last,                 \* the checkAndTranslate calls of the last handler
    located,              \* last call of the paragraph locator
    \* streamed responses
    stream,               \* one streamed response body and its consumer
    \* side panel
    panel,                \* task scheduling state of the side panel
    storageService        \* the settings service: stored item, default object

pageVars == <<tagName, parentElement, innerText>>
scriptVars == <<translateModeActive, currentHoverElement, translatingElement,
                translateShortcut, providerConfig, configLoaded, translatedTexts,
                shortcutPressTimer, timers, firstInteraction>>
asyncVars == <<loads, waiters, flights>>
envVars == <<selection, keysDown, storage, armedKey>>
vars == <<pageVars, after, scriptVars, asyncVars, envVars, last, located, stream,
          panel, storageService>>

----------------------------------------------------------------------------
\* Bounds of the model

MaxBoxes == 2        \* overlays in a row behind one element
MaxFlights == 2      \* translation requests in flight at once
MaxFrags == 1        \* content fragments of one streamed answer
MaxLoads == 1        \* storage reads in flight at once
MaxWaiters == 1      \* checkAndTranslate calls suspended on the first load
MaxListeners == 1    \* armed onFirstInteraction listeners
MaxLines == 3        \* lines of one streamed response body
MaxRunning == 2      \* chat requests of the side panel running at once
MaxHanded == 2       \* tasks the background hands to the side panel

\* Program constants
SOFT_CAP == 500
HARD_CAP == 5000

Nodes == {"html", "body", "n1", "n2", "n3", "n4"}
Parts == {"root", "content", "close"}

\* a page element
El(n) == [node |-> n, ov |-> 0, at |-> "self"]
\* part p of the k-th overlay behind node x, counted from the farthest
Part(x, k, p) == [node |-> x, ov |-> k, at |-> p]
Null == El("null")
Body == El("body")
\* an element of an overlay that was removed from the document
Detached == El("detached")

IsPage(e) == e.ov = 0 /\ e.node \in Nodes
IsPart(e) == e.ov > 0

----------------------------------------------------------------------------
\* Text

Text(core, n, pad) == [core |-> core, n |-> n, pad |-> pad]
EmptyText == Text("", 0, 0)
\* String.prototype.length
Length(t) == t.n + t.pad
\* String.prototype.trim: drops the surrounding white space
Trim(t) == Text(IF t.n = 0 THEN "" ELSE t.core, t.n, 0)
\* what an overlay renders: the close button and the content
OverlayText == Text("overlay", 2, 1)

----------------------------------------------------------------------------
\* DOM reading.  The operators take the program state s (a record of the
\* variables, see Cur) so that a handler can read what it has just written.

\* whether overlay part e is in the document
Attached(s, e) == IsPart(e) /\ e.node \in Nodes /\ e.ov <= Len(s.after[e.node])

\* Node.parentElement
ParentOf(s, e) ==
    IF IsPage(e) THEN El(parentElement[e.node])
    ELSE IF ~IsPart(e) THEN Null
    ELSE IF e.at # "root" THEN Part(e.node, e.ov, "root")
    ELSE El(parentElement[e.node])

\* Element.tagName
TagOf(e) ==
    IF IsPage(e) THEN tagName[e.node]
    ELSE IF e.at = "close" THEN "BUTTON"
    ELSE "DIV"

\* el.classList.contains('ai-sidebar-translation')
HasMarker(e) == (IsPart(e) /\ e.at = "root") \/ e = Detached

\* HTMLElement.innerText
InnerTextOf(e) == IF IsPage(e) THEN innerText[e.node] ELSE OverlayText

\* Element.children: the page children and the overlays that follow them
ChildrenOf(s, e) ==
    IF ~IsPage(e) THEN {}
    ELSE LET kids == {c \in Nodes : parentElement[c] = e.node}
         IN  {El(c) : c \in kids}
             \cup UNION {{Part(c, k, "root") : k \in 1..Len(s.after[c])} : c \in kids}

\* Element.nextElementSibling, as far as the script looks at it: the overlay
\* that directly follows e, or Null (a page sibling never carries the marker)
NextOverlay(s, e) ==
    IF IsPage(e) /\ Len(s.after[e.node]) > 0
    THEN Part(e.node, Len(s.after[e.node]), "root")
    ELSE Null

----------------------------------------------------------------------------
\* Paragraph locator

blockParagraphs == {"P", "H1", "H2", "H3", "H4", "H5", "H6",
                    "LI", "BLOCKQUOTE", "ARTICLE", "SECTION"}
containerElements == {"DIV", "TD", "TH", "DD", "FIGCAPTION"}
inlineElements == {"SPAN", "A", "STRONG", "EM", "B", "I", "CODE",
                   "MARK", "SMALL", "SUB", "SUP", "LABEL"}
blockTags == {"P", "DIV", "H1", "H2", "H3", "H4", "H5", "H6",
              "UL", "OL", "LI", "BLOCKQUOTE", "ARTICLE", "SECTION",
              "TABLE", "FORM", "HEADER", "FOOTER", "NAV", "ASIDE"}
blockParentInline == {"A", "SPAN", "STRONG", "EM", "B", "I", "CODE",
                      "MARK", "SMALL", "SUB", "SUP", "LABEL", "ABBR",
                      "CITE", "DFN", "KBD", "SAMP", "VAR", "TIME"}

RECURSIVE InsideWalk(_, _)
InsideWalk(s, el) ==
    IF el = Null \/ el = Body THEN FALSE
    ELSE IF HasMarker(el) THEN TRUE
    ELSE InsideWalk(s, ParentOf(s, el))

isInsideTranslation(s, element) == InsideWalk(s, element)

\* mutant: only children with a block-paragraph tag are counted
HasSeveralParagraphChildren(s, element) ==
    Cardinality({c \in ChildrenOf(s, element) : TagOf(c) \in blockParagraphs}) > 1

hasSignificantBlockChildren(s, element) ==
    Cardinality({c \in ChildrenOf(s, element) : TagOf(c) \in blockTags}) > 1

\* mutant: the hard cap is not applied
ContainerFitsNoCap(s, el) ==
    LET text == Trim(InnerTextOf(el))
    IN  Length(text) > 0
        /\ (Length(text) < SOFT_CAP \/ ~hasSignificantBlockChildren(s, el))

\* mutant: a short container is returned only when it is a leaf as well
ContainerFitsLeafOnly(s, el) ==
    LET text == Trim(InnerTextOf(el))
    IN  Length(text) > 0 /\ Length(text) < HARD_CAP
        /\ ~hasSignificantBlockChildren(s, el)

\* lines 441-453: whether a container element is returned
ContainerFits(s, el) ==
    LET text == Trim(InnerTextOf(el))
    IN  Length(text) > 0 /\ Length(text) < HARD_CAP
        /\ (Length(text) < SOFT_CAP \/ ~hasSignificantBlockChildren(s, el))

RECURSIVE ParagraphWalk(_, _)
ParagraphWalk(s, el) ==
    IF el = Null \/ el = Body THEN Null
    ELSE IF HasMarker(el) THEN Null
    ELSE IF TagOf(el) \in blockParagraphs THEN el
    ELSE IF TagOf(el) \in inlineElements THEN ParagraphWalk(s, ParentOf(s, el))
    ELSE IF TagOf(el) \in containerElements /\ ContainerFits(s, el) THEN el
    ELSE ParagraphWalk(s, ParentOf(s, el))

\* mutant: the walk runs without the check of the start element's ancestors
ParagraphWithoutGuard(s, startElement) == ParagraphWalk(s, startElement)

\* mutant: the walk begins above the start element
ParagraphFromParent(s, startElement) ==
    IF isInsideTranslation(s, startElement) THEN Null
    ELSE ParagraphWalk(s, ParentOf(s, startElement))

\* mutant: an inline start element is returned as it is
ParagraphInlineToo(s, startElement) ==
    IF isInsideTranslation(s, startElement) THEN Null
    ELSE IF TagOf(startElement) \in inlineElements THEN startElement
    ELSE ParagraphWalk(s, startElement)

findBestParagraph(s, startElement) ==
    IF isInsideTranslation(s, startElement) THEN Null
    ELSE ParagraphWalk(s, startElement)

RECURSIVE BlockParentWalk(_, _, _)
BlockParentWalk(s, el, element) ==
    IF el = Null \/ el = Body THEN element
    ELSE IF TagOf(el) \notin blockParentInline THEN el
    ELSE BlockParentWalk(s, ParentOf(s, el), element)

findBlockParent(s, element) == BlockParentWalk(s, element, element)

----------------------------------------------------------------------------
\* Bags of requests

EmptyBag == [x \in {} |-> 0]
BagAdd(B, x) == IF x \in DOMAIN B THEN [B EXCEPT ![x] = @ + 1] ELSE (x :> 1) @@ B
BagRemove(B, x) ==
    IF B[x] > 1 THEN [B EXCEPT ![x] = @ - 1] ELSE [y \in DOMAIN B \ {x} |-> B[y]]
RECURSIVE BagCount(_, _)
BagCount(B, S) ==
    IF S = {} THEN 0
    ELSE LET x == CHOOSE x \in S : TRUE IN B[x] + BagCount(B, S \ {x})
BagSize(B) == BagCount(B, DOMAIN B)
\* the bag of F(x) for x in B
BagMap(B, F(_)) ==
    [y \in {F(x) : x \in DOMAIN B} |-> BagCount(B, {x \in DOMAIN B : F(x) = y})]

----------------------------------------------------------------------------
\* Program state as a record, so that the steps of one handler compose

Cur == [after |-> after,
        active |-> translateModeActive, hover |-> currentHoverElement,
        translating |-> translatingElement, shortcut |-> translateShortcut,
        config |-> providerConfig, loaded |-> configLoaded,
        cache |-> translatedTexts, timer |-> shortcutPressTimer,
        pending |-> timers.pending,   \* timers the browser still holds
        started |-> FALSE,            \* this handler has called setTimeout
        listeners |-> firstInteraction,
        loads |-> loads, waiters |-> waiters, flights |-> flights,
        sel |-> selection,
        log |-> <<>>,      \* the checkAndTranslate calls of this handler
        micro |-> <<>>,    \* rejected awaits whose catch block has yet to run
        ok |-> TRUE]       \* FALSE when the handler needs more than a bound

Commit(op, s) ==
    /\ s.ok
    /\ after' = s.after
    /\ translateModeActive' = s.active
    /\ currentHoverElement' = s.hover
    /\ translatingElement' = s.translating
    /\ translateShortcut' = s.shortcut
    /\ providerConfig' = s.config
    /\ configLoaded' = s.loaded
    /\ translatedTexts' = s.cache
    /\ shortcutPressTimer' = s.timer
    /\ timers' = [pending |-> s.pending, started |-> s.started]
    /\ firstInteraction' = s.listeners
    /\ loads' = s.loads
    /\ waiters' = s.waiters
    /\ flights' = s.flights
    /\ selection' = s.sel
    /\ last' = s.log
    /\ UNCHANGED <<pageVars, located, stream, panel, storageService>>

----------------------------------------------------------------------------
\* Selection and translate target

\* window.getSelection(): the range's commonAncestorContainer is the text node
\* of element `node` (inText) or the element `node` itself; `throws` says that
\* getRangeAt(0) throws; `text` is selection.toString()
Sel(node, inText, text, throws) ==
    [node |-> node, inText |-> inText, text |-> text, throws |-> throws]
NoSelection == Sel(Null, FALSE, EmptyText, FALSE)

Target(type, text, element) == [type |-> type, text |-> text, element |-> element]
NoTarget == Target("none", EmptyText, Null)

\* range.commonAncestorContainer.parentElement
SelectionElement(s) ==
    IF s.sel.inText THEN s.sel.node ELSE ParentOf(s, s.sel.node)

\* lines 381-392: the hovered paragraph
HoverTarget(s) ==
    IF s.hover = Null THEN NoTarget
    ELSE LET bestParagraph == findBestParagraph(s, s.hover)
             text == Trim(InnerTextOf(bestParagraph))
         IN  IF bestParagraph # Null /\ Length(text) > 0 /\ Length(text) < HARD_CAP
             THEN Target("element", text, bestParagraph)
             ELSE NoTarget

getTranslateTarget(s) ==
    IF Length(Trim(s.sel.text)) > 0 /\ ~s.sel.throws
    THEN IF SelectionElement(s) = Null THEN NoTarget
         ELSE IF isInsideTranslation(s, SelectionElement(s)) THEN NoTarget
         ELSE Target("selection", Trim(s.sel.text), SelectionElement(s))
    ELSE HoverTarget(s)

----------------------------------------------------------------------------
\* Overlay controller

Box(loading, text) == [loading |-> loading, text |-> text]
LoadingText == <<"loading">>                 \* the placeholder shown while loading
ErrorText(msg) == <<"failed", msg>>          \* the failure prefix and the message

RemoveAt(seq, k) == SubSeq(seq, 1, k - 1) \o SubSeq(seq, k + 1, Len(seq))

\* Element.remove() on the k-th overlay behind x: it leaves the document; a
\* request that streams into it keeps writing to the detached element, the
\* hovered element stays a detached one, and a selection inside it collapses
RemoveBox(s, x, k) ==
    LET Moved(r) == IF r.node = x /\ r.ov = k THEN Detached
                    ELSE IF r.node = x /\ r.ov > k THEN [r EXCEPT !.ov = @ - 1]
                    ELSE r
        MovedFlight(f) == [f EXCEPT !.box = Moved(@)]
    IN  [s EXCEPT
            !.after[x] = RemoveAt(@, k),
            !.flights = BagMap(s.flights, MovedFlight),
            !.hover = Moved(@),
            !.sel = IF Moved(s.sel.node) = Detached THEN NoSelection
                    ELSE [s.sel EXCEPT !.node = Moved(@)]]

\* the result of showTranslation: the state, the container (Null: none), and
\* whether insertAdjacentElement threw
Shown(s, made, threw) == [s |-> s, made |-> made, threw |-> threw]

\* lines 589-602: the new container is inserted right behind insertTarget
InsertBox(s, insertTarget, isLoading) ==
    IF ~IsPage(insertTarget) \/ Len(s.after[insertTarget.node]) >= MaxBoxes
    THEN Shown([s EXCEPT !.ok = FALSE], Null, FALSE)
    \* the document element has no parent element: inserting a second child
    \* into the document throws
    ELSE IF parentElement[insertTarget.node] = "null" THEN Shown(s, Null, TRUE)
    ELSE Shown([s EXCEPT !.after[insertTarget.node] =
                    Append(@, Box(isLoading, IF isLoading THEN LoadingText ELSE <<>>))],
               Part(insertTarget.node, Len(s.after[insertTarget.node]) + 1, "root"),
               FALSE)

\* mutant: the overlay that follows the insertion point is left in place
ShowWithoutRemoval(s, target, isLoading) ==
    InsertBox(s, findBlockParent(s, target.element), isLoading)

showTranslation(s, target, isLoading) ==
    LET insertTarget == findBlockParent(s, target.element)
        existingTranslation == NextOverlay(s, insertTarget)
    IN  InsertBox(IF HasMarker(existingTranslation)
                  THEN RemoveBox(s, existingTranslation.node, existingTranslation.ov)
                  ELSE s,
                  insertTarget, isLoading)

\* updateTranslationContent; writing to an element outside the document
\* changes nothing that can be seen
updateTranslationContent(s, container, content) ==
    IF ~Attached(s, container) THEN s
    ELSE [s EXCEPT !.after[container.node][container.ov] = Box(FALSE, content)]

----------------------------------------------------------------------------
\* Translation orchestration

Flight(element, text, container, full) ==
    [element |-> element, text |-> text, box |-> container, full |-> full]

\* providerConfig?.apiKey
HasApiKey(config) == config = "key"

\* one checkAndTranslate call as the handler's log keeps it: the target it
\* resolved, whether its text was a cache key then, the overlay it inserted
\* (Null: none) and whether it sent a request
Call(target, hit, made, fetch) ==
    [target |-> target, hit |-> hit, made |-> made, fetch |-> fetch]
Logged(s, call) == [s EXCEPT !.log = Append(@, call)]
\* translatedTexts.has(target.text)
Hit(s, target) == target.text.core \in DOMAIN s.cache

\* mutant: the catch block caches the failure message as the translation
CatchErrorCaching(s, target, msg) ==
    LET existingContainer == NextOverlay(s, target.element)
        s1 == [s EXCEPT !.cache = (target.text.core :> ErrorText(msg)) @@ @]
    IN  IF HasMarker(existingContainer)
        THEN updateTranslationContent(s1, existingContainer, ErrorText(msg))
        ELSE s1

\* lines 689-698: the catch block
CatchError(s, target, msg) ==
    LET existingContainer == NextOverlay(s, target.element)
    IN  IF HasMarker(existingContainer)
        THEN updateTranslationContent(s, existingContainer, ErrorText(msg))
        ELSE s

\* mutant: the finally block leaves the marker set
FinallyKeepsMarker(s) == s

\* lines 699-701: the finally block
Finally(s) == [s EXCEPT !.translating = Null]

\* mutant: the request is sent without looking at the API key
AttemptWithoutKeyCheck(s, target) ==
    LET s1 == [s EXCEPT !.translating = target.element]
        sh == showTranslation(s1, target, TRUE)
    IN  IF sh.threw
        THEN Logged(Finally(CatchError(sh.s, target, "dom")),
                    Call(target, Hit(s, target), Null, FALSE))
        ELSE IF BagSize(s.flights) >= MaxFlights
        THEN [s EXCEPT !.ok = FALSE]
        ELSE Logged([sh.s EXCEPT !.flights =
                        BagAdd(@, Flight(target.element, target.text, sh.made, <<>>))],
                    Call(target, Hit(s, target), sh.made, TRUE))

\* lines 678-686 up to the first await of translateWithStream
Attempt(s, target) ==
    LET s1 == [s EXCEPT !.translating = target.element]
        sh == showTranslation(s1, target, TRUE)
    IN  IF sh.threw
        THEN Logged(Finally(CatchError(sh.s, target, "dom")),
                    Call(target, Hit(s, target), Null, FALSE))
        ELSE IF ~HasApiKey(s.config)
        \* translateWithStream rejects; the catch block runs as a microtask
        THEN Logged([sh.s EXCEPT !.micro = Append(@, target)],
                    Call(target, Hit(s, target), sh.made, FALSE))
        ELSE IF BagSize(s.flights) >= MaxFlights
        THEN [s EXCEPT !.ok = FALSE]
        ELSE Logged([sh.s EXCEPT !.flights =
                        BagAdd(@, Flight(target.element, target.text, sh.made, <<>>))],
                    Call(target, Hit(s, target), sh.made, TRUE))

\* mutant: a cache hit still sends the request
ResumeNoCache(s) ==
    LET target == getTranslateTarget(s)
        hit == Hit(s, target)
    IN  IF target = NoTarget THEN Logged(s, Call(target, FALSE, Null, FALSE))
        ELSE IF s.translating = target.element
        THEN Logged(s, Call(target, hit, Null, FALSE))
        ELSE IF HasMarker(NextOverlay(s, target.element))
        THEN Logged(s, Call(target, hit, Null, FALSE))
        ELSE Attempt(s, target)

\* lines 658-702: checkAndTranslate once the configuration is loaded
Resume(s) ==
    LET target == getTranslateTarget(s)
        hit == Hit(s, target)
        sh == showTranslation(s, target, FALSE)
    IN  IF target = NoTarget THEN Logged(s, Call(target, FALSE, Null, FALSE))
        ELSE IF s.translating = target.element
        THEN Logged(s, Call(target, hit, Null, FALSE))
        ELSE IF hit
        THEN IF sh.threw THEN Logged(sh.s, Call(target, hit, Null, FALSE))
             ELSE Logged(updateTranslationContent(sh.s, sh.made, s.cache[target.text.core]),
                         Call(target, hit, sh.made, FALSE))
        ELSE IF HasMarker(NextOverlay(s, target.element))
        THEN Logged(s, Call(target, hit, Null, FALSE))
        ELSE Attempt(s, target)

\* lines 650-656: the call suspends on its own storage read when the
\* configuration is not loaded yet
checkAndTranslate(s) ==
    IF ~s.active THEN s
    ELSE IF ~s.loaded
    THEN IF s.waiters < MaxWaiters THEN [s EXCEPT !.waiters = @ + 1]
         ELSE [s EXCEPT !.ok = FALSE]
    ELSE Resume(s)

\* the microtasks queued by the handler: the catch and finally blocks of the
\* calls whose translateWithStream rejected at once
RECURSIVE Drain(_)
Drain(s) ==
    IF s.micro = <<>> THEN s
    ELSE Drain(Finally(CatchError([s EXCEPT !.micro = Tail(@)], Head(s.micro),
                                  "no api key")))

----------------------------------------------------------------------------
\* Shortcut state machine

Modifiers == {"Control", "Alt", "Shift", "Meta", "OS"}

\* the KeyboardEvent of key k when the keys in `down` are held
KeyEvent(k, down) ==
    [key |-> k,
     ctrlKey |-> "Control" \in down, altKey |-> "Alt" \in down,
     shiftKey |-> "Shift" \in down,
     metaKey |-> ("Meta" \in down \/ "OS" \in down)]

Count(b) == IF b THEN 1 ELSE 0

isOnlyShortcutKey(e, shortcut) ==
    LET modifierCount == Count(e.ctrlKey) + Count(e.altKey)
                         + Count(e.shiftKey) + Count(e.metaKey)
        isModifierKey == e.key \in Modifiers
    IN  IF modifierCount # 1 \/ ~isModifierKey THEN FALSE
        ELSE CASE shortcut = "Control" -> e.ctrlKey
               [] shortcut = "Alt" -> e.altKey
               [] shortcut = "Shift" -> e.shiftKey
               [] shortcut = "Meta" -> e.metaKey
               [] OTHER -> e.ctrlKey

\* lines 805-810
wasShortcutKey(e, shortcut) ==
    \/ shortcut = "Control" /\ e.key = "Control"
    \/ shortcut = "Alt" /\ e.key = "Alt"
    \/ shortcut = "Shift" /\ e.key = "Shift"
    \/ shortcut = "Meta" /\ (e.key = "Meta" \/ e.key = "OS")

\* ensureCurrentElement; `found` is what elementFromPoint at the last known
\* pointer position, or else document.activeElement, gives (Null: nothing)
ensureCurrentElement(s, found) ==
    IF s.hover # Null THEN s ELSE [s EXCEPT !.hover = found]

activateTranslateMode(s, found) ==
    IF s.active THEN s
    ELSE LET s1 == ensureCurrentElement([s EXCEPT !.active = TRUE], found)
         IN  IF s1.hover = Null
             THEN IF s1.listeners < MaxListeners
                  THEN [s1 EXCEPT !.listeners = @ + 1]
                  ELSE [s1 EXCEPT !.ok = FALSE]
             ELSE checkAndTranslate(s1)

\* mutant: leaving translate mode drops the requests in flight
DeactivateCancels(s) ==
    [s EXCEPT !.timer = FALSE, !.pending = IF s.timer THEN @ - 1 ELSE @,
              !.active = FALSE, !.flights = EmptyBag]

\* mutant: leaving translate mode keeps a pending timer
DeactivateKeepsTimer(s) == [s EXCEPT !.active = FALSE]

\* lines 765-777; clearTimeout cancels the timer the handle names
deactivateTranslateMode(s) ==
    [s EXCEPT !.timer = FALSE, !.pending = IF s.timer THEN @ - 1 ELSE @,
              !.active = FALSE]

\* mutant: a key-down of another key leaves a pending timer alone
OnKeydownKeepsTimer(s, e) ==
    IF ~isOnlyShortcutKey(e, s.shortcut) THEN s
    ELSE IF s.active \/ s.timer THEN s
    ELSE [s EXCEPT !.timer = TRUE, !.pending = @ + 1, !.started = TRUE]

\* mutant: a key-down of the shortcut starts a timer whatever the state is
OnKeydownAlwaysArms(s, e) ==
    IF ~isOnlyShortcutKey(e, s.shortcut)
    THEN [s EXCEPT !.timer = FALSE, !.pending = IF s.timer THEN @ - 1 ELSE @]
    ELSE [s EXCEPT !.timer = TRUE, !.pending = @ + 1, !.started = TRUE]

\* lines 781-802: the keydown listener
OnKeydown(s, e) ==
    IF ~isOnlyShortcutKey(e, s.shortcut)
    THEN [s EXCEPT !.timer = FALSE, !.pending = IF s.timer THEN @ - 1 ELSE @]
    ELSE IF s.active \/ s.timer THEN s
    ELSE [s EXCEPT !.timer = TRUE, !.pending = @ + 1, !.started = TRUE]

\* lines 804-815: the keyup listener
OnKeyup(s, e) ==
    IF wasShortcutKey(e, s.shortcut) THEN deactivateTranslateMode(s) ELSE s

\* lines 796-799: the timer callback
OnTimer(s, found) ==
    activateTranslateMode([s EXCEPT !.timer = FALSE, !.pending = @ - 1], found)

----------------------------------------------------------------------------
\* Pointer tracking

updateMousePosition(s, element) ==
    IF element # Null /\ element # s.hover
    THEN LET s1 == [s EXCEPT !.hover = element]
         IN  IF s1.active THEN checkAndTranslate(s1) ELSE s1
    ELSE s

\* mutant: the listener does not remove itself when translate mode is off
FirstInteractionStaysArmed(s, element) ==
    IF ~s.active THEN s
    ELSE LET s1 == updateMousePosition(s, element)
         IN  IF s1.hover # Null
             THEN [checkAndTranslate(s1) EXCEPT !.listeners = @ - 1]
             ELSE s1

\* lines 746-756: one armed onFirstInteraction listener
onFirstInteraction(s, element) ==
    IF ~s.active THEN [s EXCEPT !.listeners = @ - 1]
    ELSE LET s1 == updateMousePosition(s, element)
         IN  IF s1.hover # Null
             THEN [checkAndTranslate(s1) EXCEPT !.listeners = @ - 1]
             ELSE s1

\* the capture-phase listeners armed when the event is dispatched run first,
\* one after another, each followed by its microtasks
RECURSIVE RunListeners(_, _, _)
RunListeners(s, k, element) ==
    IF k = 0 THEN s
    ELSE RunListeners(Drain(onFirstInteraction(s, element)), k - 1, element)

\* lines 841-848: the pointerover listener
OnPointerover(s, target) ==
    IF target # s.hover THEN [s EXCEPT !.hover = target] ELSE s

----------------------------------------------------------------------------
\* Configuration

Settings(shortcut, config) == [shortcut |-> shortcut, config |-> config]

\* lines 332-341: the callback of chrome.storage.sync.get
ConfigLoaded(s, settings) ==
    [s EXCEPT !.shortcut = IF settings.shortcut = "" THEN "Control" ELSE settings.shortcut,
              !.config = settings.config,
              !.loaded = TRUE]

----------------------------------------------------------------------------
\* Settings service of the side panel (services/storage.ts).  An object of
\* providerConfigs is a function from the providers it has a key for.

Providers == {"openai", "anthropic"}
Themes == {"system", "dark"}
Shortcuts == {"Control", "Alt"}

ProviderConfig(provider, apiKey) == [provider |-> provider, apiKey |-> apiKey]

AppSettings(currentProvider, providerConfigs, theme, enableReasoning, shortcut) ==
    [currentProvider |-> currentProvider, providerConfigs |-> providerConfigs,
     theme |-> theme, enableReasoning |-> enableReasoning,
     translateShortcut |-> shortcut]

\* lines 49-55; a translateShortcut of "" is a key the object does not have
DEFAULT_SETTINGS == AppSettings("openai", <<>>, "system", FALSE, "Control")

\* the item under 'ai_sidebar_settings' as chrome.storage.sync keeps it, a
\* serialised copy: the keys providerConfig (old versions) and
\* providerConfigs are sequences, empty when the item has no such key
Item(oldConfig, configs, settings) ==
    [providerConfig |-> oldConfig, providerConfigs |-> configs,
     currentProvider |-> settings.currentProvider, theme |-> settings.theme,
     enableReasoning |-> settings.enableReasoning,
     translateShortcut |-> settings.translateShortcut]

\* an item written by an old version: one providerConfig and a theme
LegacyItem(config, theme) ==
    Item(<<config>>, <<>>, AppSettings("", <<>>, theme, FALSE, ""))

\* the service: the stored item (a sequence, empty when nothing is stored)
\* and the module-level object DEFAULT_SETTINGS as it is now
StorageService(sync) == [sync |-> sync, defaults |-> DEFAULT_SETTINGS]

\* lines 65-92: the settings and whether the object returned is the
\* module-level default object itself (line 71) or a new object
getSettings(svc) ==
    IF svc.sync = <<>>
    THEN [settings |-> svc.defaults, shared |-> TRUE]
    ELSE LET settings == svc.sync[1]
         IN  IF settings.providerConfig # <<>> /\ settings.providerConfigs = <<>>
             THEN LET oldConfig == settings.providerConfig[1]
                  IN  [settings |->
                           AppSettings(oldConfig.provider,
                                       (oldConfig.provider :> oldConfig),
                                       IF settings.theme = "" THEN "system"
                                       ELSE settings.theme,
                                       FALSE, ""),
                       shared |-> FALSE]
             ELSE [settings |->
                       AppSettings(settings.currentProvider,
                                   IF settings.providerConfigs = <<>>
                                   THEN svc.defaults.providerConfigs
                                   ELSE settings.providerConfigs[1],
                                   settings.theme, settings.enableReasoning,
                                   IF settings.translateShortcut = ""
                                   THEN svc.defaults.translateShortcut
                                   ELSE settings.translateShortcut),
                   shared |-> FALSE]

\* lines 103-107: the item is replaced by a copy of the settings
saveSettings(svc, settings) ==
    [svc EXCEPT !.sync = <<Item(<<>>, <<settings.providerConfigs>>, settings)>>]

\* an assignment to a field of the object getSettings returned, then
\* saveSettings: when that object is the default object the assignment
\* changes the default object
SaveMutated(svc, got, settings) ==
    saveSettings([svc EXCEPT !.defaults = IF got.shared THEN settings ELSE @],
                 settings)

\* lines 118-123
updateProviderConfig(svc, config) ==
    LET got == getSettings(svc)
    IN  SaveMutated(svc, got,
            [got.settings EXCEPT
                !.providerConfigs = (config.provider :> config) @@ @,
                !.currentProvider = config.provider])

\* lines 163-167
switchProvider(svc, provider) ==
    LET got == getSettings(svc)
    IN  SaveMutated(svc, got, [got.settings EXCEPT !.currentProvider = provider])

\* lines 173-177
updateTheme(svc, theme) ==
    LET got == getSettings(svc)
    IN  SaveMutated(svc, got, [got.settings EXCEPT !.theme = theme])

\* lines 183-187
updateEnableReasoning(svc, enabled) ==
    LET got == getSettings(svc)
    IN  SaveMutated(svc, got, [got.settings EXCEPT !.enableReasoning = enabled])

\* lines 193-197
updateTranslateShortcut(svc, shortcut) ==
    LET got == getSettings(svc)
    IN  SaveMutated(svc, got, [got.settings EXCEPT !.translateShortcut = shortcut])

\* lines 202-204: the item is removed
clearSettings(svc) == [svc EXCEPT !.sync = <<>>]

----------------------------------------------------------------------------
\* Streamed responses: the body of a response is a sequence of lines that
\* arrives in reads; a read boundary may fall inside a line.  Strings are
\* sequences of tokens, \o is string concatenation.

\* a line of the body: a data event ('data: {json}') with the content and
\* the reasoning content of its delta, the end marker 'data: [DONE]', a
\* comment or ping (': ping'), or a data line whose JSON is malformed
Line(kind, content, reasoning) ==
    [kind |-> kind, content |-> content, reasoning |-> reasoning]

\* what one read holds of a line: the whole line, or, when the read boundary
\* falls inside it, its head (this read) and its tail (the next read)
Piece(line, part) == [line |-> line, part |-> part]

RECURSIVE PiecesOf(_, _, _)
PiecesOf(lines, split, i) ==
    IF i > Len(lines) THEN <<>>
    ELSE (IF i = split
          THEN <<Piece(lines[i], "head"), Piece(lines[i], "tail")>>
          ELSE <<Piece(lines[i], "whole")>>) \o PiecesOf(lines, split, i + 1)

\* the reads of a body: one line each, or as much as possible at once
Singles(ps) == [i \in 1..Len(ps) |-> <<ps[i]>>]
RECURSIVE Batches(_)
Batches(ps) ==
    IF ps = <<>> THEN <<>>
    ELSE LET heads == {i \in 1..Len(ps) : ps[i].part = "head"}
             k == IF heads = {} THEN Len(ps)
                  ELSE CHOOSE i \in heads : \A j \in heads : i <= j
         IN  <<SubSeq(ps, 1, k)>> \o Batches(SubSeq(ps, k + 1, Len(ps)))

\* line.trim().startsWith('data:'): the tail of a split line does not start
\* with the prefix
StartsWithData(p) ==
    p.line.kind \in {"event", "done", "bad"} /\ p.part \in {"whole", "head"}
\* data === '[DONE]'
IsDoneMarker(p) == p.line.kind = "done" /\ p.part = "whole"
\* JSON.parse(data) returns: the text is one whole JSON value
Parses(p) == p.line.kind = "event" /\ p.part = "whole"

\* the consumer of a body: `client` is "translate" (readSSEStream with the
\* callback of translateWithStream), "openai" or "anthropic" (aiService)
NoStream == [client |-> "none"]
Consumer(client, enableReasoning, lines, split, reads) ==
    [client |-> client, enableReasoning |-> enableReasoning,
     lines |-> lines, split |-> split, reads |-> reads,
     delivered |-> <<>>,      \* the lines whose parsed JSON was processed
     calls |-> <<>>,          \* the arguments of the chunk callback, in order
     fullContent |-> <<>>, fullReasoning |-> <<>>, reasoningEnded |-> FALSE,
     returned |-> FALSE, content |-> <<>>]

\* one call of the chunk callback
OnStream(st, kind, text) ==
    [st EXCEPT !.calls = Append(@, [kind |-> kind, text |-> text])]

\* content.ts lines 560-567: the onData callback of translateWithStream
OnData(st, parsed) ==
    IF parsed.content # <<>>
    THEN LET st1 == [st EXCEPT !.fullContent = @ \o parsed.content]
         IN  OnStream(st1, "content", st1.fullContent)
    ELSE st

\* mutant: the chat client passes on the text received so far
OpenAIDeltaCumulative(st, parsed) ==
    IF parsed.content # <<>>
    THEN LET st1 == [st EXCEPT !.fullContent = @ \o parsed.content]
         IN  OnStream(st1, "content", st1.fullContent)
    ELSE st

\* ai.ts lines 68-94: one parsed event of callOpenAICompatible
OpenAIDelta(st, parsed) ==
    LET reasoningContent == parsed.reasoning
        st1 == IF st.enableReasoning /\ reasoningContent # <<>>
               THEN OnStream(
                        [(IF st.fullReasoning = <<>>
                          THEN OnStream(st, "mark", <<"<think>", "\n">>)
                          ELSE st)
                         EXCEPT !.fullReasoning = @ \o reasoningContent],
                        "reasoning", reasoningContent)
               ELSE st
        st2 == IF st1.enableReasoning /\ st1.fullReasoning # <<>>
                  /\ ~st1.reasoningEnded
               THEN OnStream([st1 EXCEPT !.reasoningEnded = TRUE],
                             "mark", <<"\n", "</think>", "\n", "\n">>)
               ELSE st1
    IN  IF parsed.content # <<>>
        THEN OnStream([st2 EXCEPT !.fullContent = @ \o parsed.content],
                      "content", parsed.content)
        ELSE st1

\* ai.ts lines 183-190: one parsed event of callAnthropic; an event with
\* content is a content_block_delta
AnthropicDelta(st, parsed) ==
    IF parsed.content # <<>>
    THEN OnStream([st EXCEPT !.fullContent = @ \o parsed.content],
                  "content", parsed.content)
    ELSE st

\* one line of a read: filtered, stripped of its prefix, parsed, processed
ConsumeLine(st, p) ==
    IF ~StartsWithData(p) THEN st
    ELSE IF IsDoneMarker(p) THEN st
    ELSE IF ~Parses(p) THEN st
    ELSE LET st1 == [st EXCEPT !.delivered = Append(@, p.line)]
         IN  CASE st.client = "translate" -> OnData(st1, p.line)
               [] st.client = "openai" -> OpenAIDelta(st1, p.line)
               [] st.client = "anthropic" -> AnthropicDelta(st1, p.line)

RECURSIVE ConsumeLines(_, _)
ConsumeLines(st, ps) ==
    IF ps = <<>> THEN st ELSE ConsumeLines(ConsumeLine(st, Head(ps)), Tail(ps))

\* Markdown.tsx lines 161-181, ai.ts lines 56-99 and 172-195: one round of
\* the read loop
readSSEStream(st) ==
    [ConsumeLines(st, Head(st.reads)) EXCEPT !.reads = Tail(@)]

\* the reader reports done: the loop ends and the client returns
Returns(st) ==
    LET st1 == IF st.client = "openai" /\ st.enableReasoning
                  /\ st.fullReasoning # <<>> /\ ~st.reasoningEnded
               THEN OnStream(st, "mark", <<"\n", "</think>", "\n">>)
               ELSE st
        finalContent ==
            IF st.client = "openai" /\ st.enableReasoning /\ st.fullReasoning # <<>>
            THEN <<"<think>", "\n">> \o st.fullReasoning
                 \o <<"\n", "</think>", "\n", "\n">> \o st.fullContent
            ELSE st.fullContent
    IN  [st1 EXCEPT !.returned = TRUE, !.content = finalContent]

----------------------------------------------------------------------------
\* Actions: one per event the content script handles

\* an element the pointer or a selection can be on: in the document now
InDocument(e) == IsPage(e) \/ (e.at \in Parts /\ Attached(Cur, e))

KeyDown(k) ==
    /\ keysDown' = keysDown \cup {k}
    /\ storage' = storage
    /\ armedKey' = IF ~shortcutPressTimer
                       /\ OnKeydown(Cur, KeyEvent(k, keysDown \cup {k})).timer
                    THEN k ELSE armedKey
    /\ Commit("keydown", OnKeydown(Cur, KeyEvent(k, keysDown \cup {k})))

KeyUp(k) ==
    /\ k \in keysDown
    /\ keysDown' = keysDown \ {k}
    /\ UNCHANGED <<storage, armedKey>>
    /\ Commit("keyup", OnKeyup(Cur, KeyEvent(k, keysDown \ {k})))

TimerFire(found) ==
    /\ timers.pending > 0
    /\ found = Null \/ InDocument(found)
    /\ UNCHANGED <<keysDown, storage, armedKey>>
    /\ Commit("timer", Drain(OnTimer(Cur, found)))

PointerMove(element) ==
    /\ element = Null \/ InDocument(element)
    /\ UNCHANGED <<keysDown, storage, armedKey>>
    /\ Commit("pointermove",
              Drain(updateMousePosition(RunListeners(Cur, firstInteraction, element),
                                        element)))

PointerOver(target) ==
    /\ InDocument(target)
    /\ UNCHANGED <<keysDown, storage, armedKey>>
    /\ Commit("pointerover", OnPointerover(Cur, target))

\* the pointer crosses onto `target`: the browser dispatches the boundary
\* event pointerover to it and then pointermove, in one task
PointerOnto(target) ==
    /\ InDocument(target)
    /\ UNCHANGED <<keysDown, storage, armedKey>>
    /\ Commit("pointeronto",
              Drain(updateMousePosition(
                        RunListeners(OnPointerover(Cur, target), firstInteraction,
                                     target),
                        target)))

\* click on the close button of the k-th overlay behind x
CloseClick(x, k) ==
    /\ k <= Len(after[x])
    /\ UNCHANGED <<keysDown, storage, armedKey>>
    /\ Commit("close", RemoveBox(Cur, x, k))

\* the user selects text, or clears the selection
Select(sel) ==
    /\ sel # selection
    /\ sel = NoSelection \/ InDocument(sel.node)
    /\ UNCHANGED <<keysDown, storage, armedKey>>
    /\ Commit("select", [Cur EXCEPT !.sel = sel])

\* the settings are saved in the side panel: storage.onChanged fires and the
\* listener starts a read
StorageChange(settings) ==
    /\ settings # storage
    /\ loads < MaxLoads
    /\ storage' = settings
    /\ UNCHANGED <<keysDown, armedKey>>
    /\ Commit("changed", [Cur EXCEPT !.loads = @ + 1])

\* a read started at script load or by onChanged is answered
LoadDone ==
    /\ loads > 0
    /\ UNCHANGED <<keysDown, storage, armedKey>>
    /\ Commit("loaded", ConfigLoaded([Cur EXCEPT !.loads = @ - 1], storage))

\* the read a suspended checkAndTranslate call waits for is answered, and
\* the call goes on at line 658
WaiterDone ==
    /\ waiters > 0
    /\ UNCHANGED <<keysDown, storage, armedKey>>
    /\ Commit("resumed",
              Drain(Resume(ConfigLoaded([Cur EXCEPT !.waiters = @ - 1], storage))))

\* a fragment with content arrives on request f
FlightChunk(f, frag) ==
    /\ f \in DOMAIN flights
    /\ Len(f.full) < MaxFrags
    /\ UNCHANGED <<keysDown, storage, armedKey>>
    /\ LET fullContent == Append(f.full, frag)
       IN  Commit("chunk",
                  updateTranslationContent(
                      [Cur EXCEPT !.flights =
                          BagAdd(BagRemove(@, f), [f EXCEPT !.full = fullContent])],
                      f.box, fullContent))

\* the stream of request f ends: the translation is cached
FlightDone(f) ==
    /\ f \in DOMAIN flights
    /\ UNCHANGED <<keysDown, storage, armedKey>>
    /\ Commit("done",
              Finally([Cur EXCEPT !.cache = (f.text.core :> f.full) @@ @,
                                  !.flights = BagRemove(@, f)]))

\* request f fails: a status that is not ok, or a network error
FlightFail(f) ==
    /\ f \in DOMAIN flights
    /\ UNCHANGED <<keysDown, storage, armedKey>>
    /\ Commit("failed",
              Finally(CatchError([Cur EXCEPT !.flights = BagRemove(@, f)],
                                 Target("", f.text, f.element), "request failed")))

----------------------------------------------------------------------------
\* The page of the main specification:
\*   html > body > n1 (DIV, the long main column)
\*                   > n2 (P "hello world") > n3 (SPAN "world")
\*                   > n4 (DIV, a short leaf with the text of n2)

Hello == Text("hello world", 11, 0)
World == Text("world", 5, 0)
Translated == Text("translated", 4, 0)

PageTags == [n \in Nodes |->
    CASE n = "html" -> "HTML" [] n = "body" -> "BODY" [] n = "n1" -> "DIV"
      [] n = "n2" -> "P" [] n = "n3" -> "SPAN" [] n = "n4" -> "DIV"]
PageParents == [n \in Nodes |->
    CASE n = "html" -> "null" [] n = "body" -> "html" [] n = "n1" -> "body"
      [] n = "n2" -> "n1" [] n = "n3" -> "n2" [] n = "n4" -> "n1"]
PageTexts == [n \in Nodes |->
    CASE n = "html" -> Text("page", 6000, 2) [] n = "body" -> Text("page", 6000, 2)
      [] n = "n1" -> Text("page", 6000, 0)
      [] n = "n2" -> Hello [] n = "n3" -> World
      [] n = "n4" -> Text("hello world", 11, 1)]

ScriptInit ==
    /\ translateModeActive = FALSE
    /\ currentHoverElement = Null
    /\ translatingElement = Null
    /\ translateShortcut = "Control"
    /\ providerConfig = "null"
    /\ configLoaded = FALSE
    /\ translatedTexts = <<>>
    /\ shortcutPressTimer = FALSE
    /\ timers = [pending |-> 0, started |-> FALSE]
    /\ firstInteraction = 0
    /\ loads = 1
    /\ waiters = 0
    /\ flights = EmptyBag
    /\ selection = NoSelection
    /\ keysDown = {}
    /\ armedKey = ""
    /\ last = <<>>
    /\ located = [start |-> Null, result |-> Null]
    /\ stream = NoStream
    /\ panel = "closed"
    /\ storageService = StorageService(<<>>)

Init ==
    /\ tagName = PageTags
    /\ parentElement = PageParents
    /\ innerText = PageTexts
    /\ after = [x \in Nodes |-> <<>>]
    /\ storage = Settings("Control", "key")
    /\ ScriptInit

Frags == {"x"}
AllFlights == DOMAIN flights
OverlayParts(x, p) == {Part(x, k, p) : k \in 1..MaxBoxes}

\* the steps of the requests in flight
Network ==
    \/ \E f \in AllFlights, frag \in Frags : FlightChunk(f, frag)
    \/ \E f \in AllFlights : FlightDone(f)
    \/ \E f \in AllFlights : FlightFail(f)

\* the user holds and releases the shortcut key; no element of the page has
\* the focus, so ensureCurrentElement finds nothing before the pointer moves
Shortcut ==
    \/ KeyDown("Control")
    \/ KeyUp("Control")
    \/ TimerFire(Null)

\* the storage reads answer
Loading == LoadDone \/ WaiterDone

\* the user browses: the pointer moves over `hovers`, the selection is one of
\* `sels`, overlays behind `hosts` are closed
Browse(hovers, sels, hosts) ==
    \/ Shortcut
    \/ Loading
    \/ \E e \in hovers : PointerMove(e)
    \/ \E x \in hosts, k \in 1..MaxBoxes : CloseClick(x, k)
    \/ \E sel \in sels : Select(sel)
    \/ Network

----------------------------------------------------------------------------
\* Main specification: the pointer moves over the paragraph n2 and its span
\* n3, the user selects the word in the span, closes overlays, and requests
\* stream, end or fail.

HoverChoices == {El("n2"), El("n3")}
SelChoices == {NoSelection, Sel(El("n3"), TRUE, World, FALSE)}

Next == Browse(HoverChoices, SelChoices, {"n2"})

Spec == Init /\ [][Next]_vars

----------------------------------------------------------------------------
\* Cache specification: the user selects the first word of the paragraph n2
\* (the selection lies in the paragraph's own text node), so a selection
\* target and an element target share the anchor n2.

CacheSelChoices == {NoSelection, Sel(El("n2"), TRUE, Text("hello", 5, 0), FALSE)}

NextCache == Browse(HoverChoices, CacheSelChoices, {"n2"})

SpecCache == Init /\ [][NextCache]_vars

----------------------------------------------------------------------------
\* Selection specification: the user selects inside the overlays behind n2,
\* either within the text of the content element or from the close button to
\* the content, which makes the overlay element the common ancestor.

OverlaySelChoices ==
    {NoSelection}
    \cup {Sel(e, FALSE, Translated, FALSE) : e \in OverlayParts("n2", "root")}
    \cup {Sel(e, TRUE, Translated, FALSE) : e \in OverlayParts("n2", "content")}

NextSelect == Browse(HoverChoices, OverlaySelChoices, {"n1", "n2"})

SpecSelect == Init /\ [][NextSelect]_vars

----------------------------------------------------------------------------
\* Shortcut specification: keys go down and up, the timer fires, and the
\* settings are saved with another shortcut while the page is open.  The
\* pointer rests on the long column n1, which yields no target.

KeyChoices == {"Control", "Alt", "a"}
SettingsChoices == {Settings("Control", "key"), Settings("Alt", "key")}

NextKeys ==
    \/ \E k \in KeyChoices : KeyDown(k)
    \/ \E k \in KeyChoices : KeyUp(k)
    \/ \E found \in {Null, El("n1")} : TimerFire(found)
    \/ PointerMove(El("n1"))
    \/ PointerOver(El("n1"))
    \/ \E settings \in SettingsChoices : StorageChange(settings)
    \/ Loading

SpecKeys == Init /\ [][NextKeys]_vars

----------------------------------------------------------------------------
\* Locator specification: findBestParagraph over every small page.  n1, n2
\* and n3 take any tag of TagChoices and any nesting; the rendered text of a
\* container is drawn around the two caps, with and without surrounding white
\* space (innerText follows the style sheet, so it is not tied to the text
\* of the children); one overlay may follow a block element.

TagChoices == {"P", "SPAN", "DIV", "UL"}
Word == Text("t", 1, 0)
TextChoices == {Text("", 0, 0), Text("", 0, 1),
                Text("t", SOFT_CAP - 1, 0), Text("t", SOFT_CAP - 1, 1),
                Text("t", SOFT_CAP, 0),
                Text("t", HARD_CAP - 1, 0), Text("t", HARD_CAP - 1, 1),
                Text("t", HARD_CAP, 0)}
TextsOf(tag) == IF tag \in containerElements THEN TextChoices ELSE {Word}

InitLocate ==
    /\ \E t1 \in TagChoices, t2 \in TagChoices, t3 \in TagChoices :
         /\ tagName = [n \in Nodes |->
               CASE n = "html" -> "HTML" [] n = "body" -> "BODY" [] n = "n1" -> t1
                 [] n = "n2" -> t2 [] n = "n3" -> t3 [] n = "n4" -> "P"]
         /\ \E x1 \in TextsOf(t1), x2 \in TextsOf(t2), x3 \in TextsOf(t3) :
              innerText = [n \in Nodes |->
                  CASE n = "n1" -> x1 [] n = "n2" -> x2 [] n = "n3" -> x3
                    [] n = "n4" -> Word [] OTHER -> Text("page", HARD_CAP, 2)]
    /\ \E p2 \in {"body", "n1"}, p3 \in {"body", "n1", "n2"} :
         parentElement = [n \in Nodes |->
             CASE n = "html" -> "null" [] n = "body" -> "html" [] n = "n1" -> "body"
               [] n = "n2" -> p2 [] n = "n3" -> p3 [] n = "n4" -> "body"]
    /\ \E host \in {"none", "n1", "n2", "n3"} :
         /\ host # "none" => tagName[host] \notin blockParentInline
         /\ after = [x \in Nodes |->
                        IF x = host THEN <<Box(FALSE, <<"x">>)>> ELSE <<>>]
    /\ storage = Settings("Control", "key")
    /\ ScriptInit

\* findBestParagraph is called on e
Locate(e) ==
    /\ InDocument(e)
    /\ located' = [start |-> e, result |-> findBestParagraph(Cur, e)]
    /\ UNCHANGED <<pageVars, after, scriptVars, asyncVars, envVars, last, stream,
                   panel, storageService>>

LocateChoices ==
    {El(n) : n \in Nodes}
    \cup UNION {OverlayParts(x, p) : x \in {"n1", "n2", "n3"}, p \in Parts}

NextLocate == \E e \in LocateChoices : Locate(e)

SpecLocate == InitLocate /\ [][NextLocate]_vars

----------------------------------------------------------------------------
\* Key specification: the page is opened with a provider configuration that
\* has no API key; the pointer moves between the paragraph n2 and the short
\* leaf n4, and the user may save a key, or remove it again, in the side
\* panel.

KeySettingsChoices == {Settings("Control", "nokey"), Settings("Control", "key")}

InitNoKey ==
    /\ tagName = PageTags
    /\ parentElement = PageParents
    /\ innerText = PageTexts
    /\ after = [x \in Nodes |-> <<>>]
    /\ storage = Settings("Control", "nokey")
    /\ ScriptInit

NextNoKey ==
    \/ Shortcut
    \/ Loading
    \/ \E e \in {El("n2"), El("n4")} : PointerMove(e)
    \/ \E k \in 1..MaxBoxes : CloseClick("n2", k)
    \/ Network
    \/ \E settings \in KeySettingsChoices : StorageChange(settings)

SpecNoKey == InitNoKey /\ [][NextNoKey]_vars

----------------------------------------------------------------------------
\* Termination specification: the pointer moves between the paragraph n2 and
\* the short leaf n4 with a key configured, and every request in flight
\* eventually ends or fails (the promise of translateWithStream settles).

NextHover ==
    \/ Shortcut
    \/ Loading
    \/ \E e \in {El("n2"), El("n4")} : PointerMove(e)
    \/ \E k \in 1..MaxBoxes : CloseClick("n2", k)
    \/ Network

\* some request in flight settles
Settle == \E f \in AllFlights : FlightDone(f) \/ FlightFail(f)

SpecSettle == Init /\ [][NextHover]_vars /\ WF_vars(Settle)

----------------------------------------------------------------------------
\* Inaccessible-selection specification: the user's selection has text, but
\* reading its range throws (selection.getRangeAt(0) on a selection the
\* page cannot reach).

ThrowSelChoices == {NoSelection, Sel(El("n3"), TRUE, World, TRUE)}

NextThrow == Browse(HoverChoices, ThrowSelChoices, {"n2"})

SpecThrow == Init /\ [][NextThrow]_vars

----------------------------------------------------------------------------
\* Pointer specification: the pointer moves between the paragraph n2 and the
\* short leaf n4; a move onto an element arrives either as a pointermove
\* alone or as the pair pointerover, pointermove.

PointerChoices == {El("n2"), El("n4")}

NextPointer ==
    \/ Shortcut
    \/ Loading
    \/ \E e \in PointerChoices : PointerMove(e)
    \/ \E e \in PointerChoices : PointerOnto(e)
    \/ \E k \in 1..MaxBoxes : CloseClick("n2", k)
    \/ Network

SpecPointer == Init /\ [][NextPointer]_vars

----------------------------------------------------------------------------
\* Stream specifications: a response body of up to MaxLines lines, with at
\* most one line cut by a read boundary, is consumed read by read.

FragmentChoices == {<<"a">>, <<"b">>}
LineChoices ==
    {Line("event", c, <<>>) : c \in FragmentChoices \cup {<<>>}}
    \cup {Line("event", <<>>, <<"r">>), Line("event", <<"a">>, <<"r">>)}
    \cup {Line(k, <<>>, <<>>) : k \in {"done", "comment", "bad"}}
Bodies == UNION {[1..n -> LineChoices] : n \in 0..MaxLines}

InitStream(clients) ==
    /\ tagName = PageTags
    /\ parentElement = PageParents
    /\ innerText = PageTexts
    /\ after = [x \in Nodes |-> <<>>]
    /\ storage = Settings("Control", "key")
    /\ translateModeActive = FALSE
    /\ currentHoverElement = Null
    /\ translatingElement = Null
    /\ translateShortcut = "Control"
    /\ providerConfig = "null"
    /\ configLoaded = FALSE
    /\ translatedTexts = <<>>
    /\ shortcutPressTimer = FALSE
    /\ timers = [pending |-> 0, started |-> FALSE]
    /\ firstInteraction = 0
    /\ loads = 1
    /\ waiters = 0
    /\ flights = EmptyBag
    /\ selection = NoSelection
    /\ keysDown = {}
    /\ armedKey = ""
    /\ last = <<>>
    /\ located = [start |-> Null, result |-> Null]
    /\ panel = "closed"
    /\ storageService = StorageService(<<>>)
    /\ \E client \in clients, enableReasoning \in BOOLEAN, lines \in Bodies :
         \E split \in 0..Len(lines), batched \in BOOLEAN :
           /\ enableReasoning => client = "openai"
           /\ stream = Consumer(client, enableReasoning, lines, split,
                                IF batched THEN Batches(PiecesOf(lines, split, 1))
                                ELSE Singles(PiecesOf(lines, split, 1)))

\* reader.read() gives the next read
StreamRead ==
    /\ stream.client # "none" /\ ~stream.returned
    /\ stream.reads # <<>>
    /\ stream' = readSSEStream(stream)
    /\ UNCHANGED <<pageVars, after, scriptVars, asyncVars, envVars, last, located,
                   panel, storageService>>

\* reader.read() reports done
StreamDone ==
    /\ stream.client # "none" /\ ~stream.returned
    /\ stream.reads = <<>>
    /\ stream' = Returns(stream)
    /\ UNCHANGED <<pageVars, after, scriptVars, asyncVars, envVars, last, located,
                   panel, storageService>>

NextStream == StreamRead \/ StreamDone

SpecTranslateStream == InitStream({"translate"}) /\ [][NextStream]_vars

SpecChatStream == InitStream({"openai", "anthropic"}) /\ [][NextStream]_vars

----------------------------------------------------------------------------
\* Properties

\* the requests in flight whose target anchor is a
InFlightFor(a) == BagCount(flights, {f \in DOMAIN flights : f.element = a})
Anchors == {El(n) : n \in Nodes}
Calls == {last[i] : i \in DOMAIN last}

\* C1: in every reachable state, for every anchor element, at most one
\* translation request for that anchor is in flight.
AtMostOneRequestPerAnchor == \A a \in Anchors : InFlightFor(a) <= 1

OneOverlayPerInsertionPoint == \A x \in Nodes : Len(after[x]) <= 1

\* C3 witness: the last handler inserted the overlay of a request behind an
\* element while an earlier request, whose overlay left the page, is still
\* in flight.
OverlayInsertedAgain ==
    \E f \in DOMAIN flights, g \in DOMAIN flights :
        /\ f.box = Detached
        /\ Attached(Cur, g.box)
        /\ \E c \in Calls : c.made = g.box /\ c.fetch

\* C4: a call of checkAndTranslate that sends a request, or inserts a loading
\* overlay, for an anchor does so only when no other request for that anchor
\* is in flight.
SecondTriggerSendsNothing ==
    \A c \in Calls :
        (c.fetch \/ (c.made # Null /\ ~c.hit)) => InFlightFor(c.target.element) <= 1

\* C5: translate mode becomes active only while the key whose keydown started
\* the timer is still held, that is, never after that key was released.
ReleaseBeforeTimerNeverActivates ==
    [][(~translateModeActive /\ translateModeActive') => armedKey \in keysDown]_vars

\* C6: when a request fails whose loading overlay is in the page, that
\* overlay stays in the page, its loading flag is cleared and its text is
\* the error message.
FailureShowsError ==
    [][\A f \in DOMAIN flights :
          (FlightFail(f) /\ Attached(Cur, f.box))
          => /\ f.box.ov <= Len(after'[f.box.node])
             /\ after'[f.box.node][f.box.ov] = Box(FALSE, ErrorText("request failed"))]_vars

\* C7: while the non-empty selection's common ancestor is an overlay element
\* or lies inside one, no call of checkAndTranslate resolves a target.
OverlaySelectionYieldsNothing ==
    (IsPart(selection.node) /\ Length(Trim(selection.text)) > 0)
    => \A c \in Calls : c.target = NoTarget

\* C8: for a start element that is an overlay element or a descendant of
\* one, findBestParagraph returns null.
NothingInsideOverlay == IsPart(located.start) => located.result = Null

\* C8 witness: the locator was called on the content element of an overlay.
LocatedOverlayContent == IsPart(located.start) /\ located.start.at = "content"

\* C9: for a start element with a block-semantic tag, findBestParagraph
\* returns the start element itself.
BlockParagraphIsItself ==
    (IsPage(located.start) /\ TagOf(located.start) \in blockParagraphs)
    => located.result = located.start

\* C9 witness: the locator was called on a paragraph nested in two
\* containers, with an overlay behind it.
LocatedNestedParagraph ==
    /\ located.start = El("n3") /\ tagName["n3"] = "P"
    /\ parentElement["n3"] = "n2" /\ tagName["n2"] = "DIV"
    /\ parentElement["n2"] = "n1" /\ tagName["n1"] = "DIV"
    /\ Len(after["n3"]) = 1

\* C10 as stated: findBestParagraph never returns a container element whose
\* rendered text is empty or 5000 characters or longer.
NeverEmptyOrHugeContainer ==
    (IsPage(located.result) /\ TagOf(located.result) \in containerElements)
    => (Length(InnerTextOf(located.result)) > 0
        /\ Length(InnerTextOf(located.result)) < HARD_CAP)

\* C10, amended: findBestParagraph never returns a container element whose
\* trimmed rendered text is empty or 5000 characters or longer, and called on
\* such an element it returns what it returns for the element's parent.
NeverTrimmedEmptyOrHugeContainer ==
    /\ (IsPage(located.result) /\ TagOf(located.result) \in containerElements)
       => (Length(Trim(InnerTextOf(located.result))) > 0
           /\ Length(Trim(InnerTextOf(located.result))) < HARD_CAP)
    /\ (/\ IsPage(located.start)
        /\ TagOf(located.start) \in containerElements
        /\ (Length(Trim(InnerTextOf(located.start))) = 0
            \/ Length(Trim(InnerTextOf(located.start))) >= HARD_CAP))
       => located.result = findBestParagraph(Cur, ParentOf(Cur, located.start))

\* C10 witness: the locator was called on a container with 5000 characters
\* of text and went on to an ancestor.
LocatedAboveHugeContainer ==
    /\ IsPage(located.start) /\ TagOf(located.start) \in containerElements
    /\ Length(Trim(InnerTextOf(located.start))) >= HARD_CAP
    /\ located.result # Null

\* the direct children of e with a block-semantic tag
BlockSemanticChildren(e) ==
    {c \in ChildrenOf(Cur, e) : TagOf(c) \in blockParagraphs}

\* the element the walk of the last locator call reaches first that is not
\* an inline element: the start element, or the parent of an inline start
Reached ==
    IF TagOf(located.start) \in inlineElements
    THEN ParentOf(Cur, located.start) ELSE located.start

\* C11 as stated: when the walk reaches a container element whose text is
\* shorter than 500 characters, findBestParagraph returns that element.
ShortContainerReturned ==
    (/\ IsPage(located.start) /\ IsPage(Reached)
     /\ TagOf(Reached) \in containerElements
     /\ Length(InnerTextOf(Reached)) < SOFT_CAP)
    => located.result = Reached

\* C11, amended: when the walk reaches a container element whose trimmed text
\* is not empty and shorter than 500 characters, findBestParagraph returns
\* that element, whatever its children are.
ShortNonEmptyContainerReturned ==
    (/\ IsPage(located.start) /\ IsPage(Reached)
     /\ TagOf(Reached) \in containerElements
     /\ Length(Trim(InnerTextOf(Reached))) > 0
     /\ Length(Trim(InnerTextOf(Reached))) < SOFT_CAP)
    => located.result = Reached

\* C11 witness: the locator was called on a container with 499 characters of
\* text and two block-semantic children, and returned it.
LocatedShortContainerWithParagraphs ==
    /\ IsPage(located.start) /\ TagOf(located.start) \in containerElements
    /\ Length(Trim(InnerTextOf(located.start))) = SOFT_CAP - 1
    /\ Cardinality(BlockSemanticChildren(located.start)) >= 2
    /\ located.result = located.start

\* C12: when no API key is configured, a translation attempt (a call that
\* gets past the cache) inserts no overlay into the page
NoOverlayWithoutKey ==
    ~HasApiKey(providerConfig) =>
        \A c \in Calls : c.target # NoTarget /\ ~c.hit => c.made = Null

\* C13: when no API key is configured, a translation attempt issues no
\* network request
NoRequestWithoutKey ==
    ~HasApiKey(providerConfig) => \A c \in Calls : ~c.fetch

\* an attempt got as far as translateWithStream with no key configured
AttemptedWithoutKey ==
    /\ configLoaded /\ ~HasApiKey(providerConfig)
    /\ \E c \in Calls : c.target # NoTarget /\ ~c.hit /\ c.made # Null /\ ~c.fetch

\* C14: the step in which a request completes or fails clears the in-flight
\* marker, so, every request settling eventually, a set marker is always
\* cleared again and a hover over the same element is not blocked forever
MarkerClearedWhenSettled ==
    /\ [][Settle => translatingElement' = Null]_vars
    /\ (translatingElement # Null) ~> (translatingElement = Null)

\* a request for an element has completed and a later hover over the same
\* element got past the marker: it showed the cached translation
HoverAfterSettled ==
    /\ translatingElement = Null
    /\ \E c \in Calls : c.target.type = "element" /\ c.hit /\ c.made # Null

\* C15: a step changes the translation cache only by ending a request in
\* flight and setting the entry of that request's source text to its final
\* text; a failing request leaves the cache as it is, and so does every step
\* that ends no request (key and pointer events, cache hits, fragments);
\* no entry is removed
CacheSetOnlyBySuccess ==
    [][/\ translatedTexts' # translatedTexts =>
            \E f \in DOMAIN flights :
                /\ flights' = BagRemove(flights, f)
                /\ translatedTexts' = (f.text.core :> f.full) @@ translatedTexts
       /\ DOMAIN translatedTexts \subseteq DOMAIN translatedTexts'
       /\ \A f \in DOMAIN flights :
            FlightFail(f) => translatedTexts' = translatedTexts]_vars

\* a streamed translation is in the cache and a later call hit it
CachedStreamHit ==
    /\ \E k \in DOMAIN translatedTexts : translatedTexts[k] = <<"x">>
    /\ \E c \in Calls : c.hit /\ c.made # Null

\* C16: a checkAndTranslate call inserts an overlay or sends a request only
\* while translate mode is active, also when it resumes after waiting for
\* the configuration to load
AttemptOnlyWhileActive ==
    \A c \in Calls : c.made # Null \/ c.fetch => translateModeActive

\* the key k is the configured modifier
IsConfigured(k) ==
    \/ k = translateShortcut /\ k \in {"Control", "Alt", "Shift", "Meta"}
    \/ k = "OS" /\ translateShortcut = "Meta"

\* C17: a key-up of the configured modifier while a timer is pending or
\* translate mode is active leaves translate mode inactive and no timer
\* pending
ShortcutKeyupDeactivates ==
    [][\A k \in KeyChoices :
          /\ k \in keysDown /\ keysDown' = keysDown \ {k}
          /\ IsConfigured(k)
          /\ shortcutPressTimer \/ translateModeActive
          => ~translateModeActive' /\ ~shortcutPressTimer']_vars

\* translate mode was activated with no hovered element (its first-move
\* listener is still armed) and has been left again by releasing the key
ReleasedAfterActivation ==
    /\ firstInteraction > 0
    /\ ~translateModeActive /\ ~shortcutPressTimer
    /\ keysDown = {}

\* the key-down of k, with the keys in `down` held afterwards, is the
\* configured modifier pressed alone
PressedAlone(k, down) == IsConfigured(k) /\ down \cap Modifiers = {k}

ThrowingSelectionYieldsNothing ==
    selection.throws /\ Length(Trim(selection.text)) > 0 =>
        \A c \in Calls : c.target = NoTarget

\* C20: while translate mode is active, a pointer move onto an element other
\* than the one hovered before makes a checkAndTranslate call (which
\* resolves a target, or waits for the configuration), whether the move
\* arrives as a pointermove alone or as pointerover followed by pointermove
NewElementIsTranslated ==
    [][\A e \in PointerChoices :
          /\ translateModeActive
          /\ e # currentHoverElement
          /\ PointerMove(e) \/ PointerOnto(e)
          => last' # <<>> \/ waiters' > waiters]_vars

\* C21: one dispatched pointermove or pointerover event makes at most one
\* checkAndTranslate call
OneCallPerPointerEvent ==
    [][\A e \in HoverChoices :
          PointerMove(e) \/ PointerOver(e) => Len(last') <= 1]_vars

\* the content fragments the consumer has parsed, and the calls of the chunk
\* callback that carry content
RECURSIVE Concat(_)
Concat(texts) == IF texts = <<>> THEN <<>> ELSE Head(texts) \o Concat(Tail(texts))
HasContent(line) == line.content # <<>>
IsContentCall(c) == c.kind = "content"
Fragments ==
    LET parsed == SelectSeq(stream.delivered, HasContent)
    IN  [i \in 1..Len(parsed) |-> parsed[i].content]
ContentCalls == SelectSeq(stream.calls, IsContentCall)

IsEvent(line) == line.kind = "event"
EventsAfterSkipped ==
    LET lines == stream.lines
        others == {i \in 1..Len(lines) : ~IsEvent(lines[i])}
        k == IF others = {} THEN Len(lines)
             ELSE CHOOSE i \in others : \A j \in others : i <= j
    IN  SelectSeq(SubSeq(lines, k + 1, Len(lines)), IsEvent)

\* C23: when readSSEStream has read the body to its end, every well-formed
\* event line that follows a skipped line has been delivered to the
\* callback, in arrival order
EventsAfterSkippedDelivered ==
    stream.client = "translate" /\ stream.returned =>
        LET d == stream.delivered
            e == EventsAfterSkipped
        IN  /\ Len(e) <= Len(d)
            /\ SubSeq(d, Len(d) - Len(e) + 1, Len(d)) = e

\* C24: leaving translate mode leaves the requests in flight as they are;
\* while translate mode is inactive a fragment still updates the overlay of
\* its request (if that overlay is in the page) with the text streamed so
\* far, and the end of the stream stores the final text in the cache under
\* the source text and clears the in-flight marker
DeactivationKeepsRequests ==
    [][/\ translateModeActive /\ ~translateModeActive' => flights' = flights
       /\ \A f \in DOMAIN flights :
            ~translateModeActive =>
              /\ \A frag \in Frags :
                    FlightChunk(f, frag) /\ Attached(Cur, f.box) =>
                        after'[f.box.node][f.box.ov] =
                            Box(FALSE, Append(f.full, frag))
              /\ FlightDone(f) =>
                    /\ f.text.core \in DOMAIN translatedTexts'
                    /\ translatedTexts'[f.text.core] = f.full
                    /\ translatingElement' = Null]_vars

\* translate mode has been left and the key released while a request is in
\* flight, and a fragment of it has been written to its overlay
StreamingWhileInactive ==
    /\ ~translateModeActive /\ keysDown = {} /\ configLoaded /\ waiters = 0
    /\ \E f \in DOMAIN flights :
          /\ f.full = <<"x">>
          /\ Attached(Cur, f.box)
          /\ after[f.box.node][f.box.ov] = Box(FALSE, <<"x">>)

\* ---------------------------------------------------------------------------
\* Side panel: pending tasks and chat requests
\* (src/hooks/usePendingTask.ts, useChat, App.handleSendMessage)
\* ---------------------------------------------------------------------------

\* The tasks of the background: 'ask' carries the selected text and an empty
\* prompt, 'ask_empty' is an ask task whose selected text is empty as well,
\* 'explain' and 'summarize_page' carry a prompt.
TaskTypes == {"ask", "ask_empty", "explain", "summarize_page"}

\* The panel after mounting: no request, nothing rendered as loading, the
\* page content not extracted yet.
PanelMounted ==
    [isLoading |-> FALSE,           \* useChat state, as last set
     chatLoading |-> FALSE,         \* the value the last render committed
     chatLoadingRef |-> FALSE,
     taskExecutingRef |-> FALSE,
     pendingExecuteTaskRef |-> "none",
     pendingTaskChecked |-> FALSE,
     pageContent |-> FALSE,
     polling |-> FALSE,             \* GET_PENDING_TASK sent, no answer yet
     timers |-> {},                 \* tasks waiting for their 100 ms timer
     running |-> 0,                 \* aiService.chat calls not yet settled
     ran |-> "none",                \* what executeTask did in the last step
     runs |-> [t \in TaskTypes |-> 0],  \* how often executeTask ran a task
     \* background service worker
     pendingTask |-> "none",
     handed |-> {},                 \* tasks sendTaskToSidepanel was called with
     sending |-> {},                \* EXECUTE_TASK messages not yet delivered
     acks |-> {}]                   \* delivered, pendingTask not yet cleared

\* useChat.sendMessage / summarizePage up to the await: the loading state is
\* set (visible to closures only after the next render) and the request is
\* issued.  sendMessage returns at once when its content is blank.
sendMessage(p, blank) ==
    IF blank THEN p ELSE [p EXCEPT !.isLoading = TRUE, !.running = @ + 1]

executeTask(p, task, valid) ==
    IF task = "ask" THEN [p EXCEPT !.ran = "ask"]
    ELSE IF p.taskExecutingRef \/ p.chatLoadingRef THEN [p EXCEPT !.ran = "skipped"]
    ELSE IF ~valid THEN [p EXCEPT !.ran = "invalid"]
    ELSE IF task = "summarize_page" /\ ~p.pageContent
        THEN [p EXCEPT !.pendingExecuteTaskRef = task, !.ran = "queued"]
    ELSE sendMessage([p EXCEPT !.taskExecutingRef = TRUE, !.ran = "run",
                               !.runs[task] = @ + 1],
                     task = "ask_empty")

\* One render with its effects, in the order the hook declares them: the
\* refs take the rendered values, the lock is released when chatLoading has
\* become false, a queued task runs once the page content is there, and the
\* pending-task poll is sent once.
Render(p, valid) ==
    LET released == p.chatLoading /\ ~p.isLoading
        p1 == [p EXCEPT !.chatLoading = p.isLoading,
                        !.chatLoadingRef = p.isLoading,
                        !.taskExecutingRef = IF released THEN FALSE ELSE @]
        p2 == IF p1.pageContent /\ p1.pendingExecuteTaskRef # "none"
                  THEN executeTask([p1 EXCEPT !.pendingExecuteTaskRef = "none"],
                                   p1.pendingExecuteTaskRef, valid)
                  ELSE p1
    IN  [p2 EXCEPT !.polling = @ \/ (~p2.pendingTaskChecked /\ p2.pageContent)]

PanelStep(p) ==
    /\ p.running <= MaxRunning
    /\ panel' = p
    /\ UNCHANGED <<pageVars, after, scriptVars, asyncVars, envVars, last, located,
                   stream, storageService>>

Idle == [panel EXCEPT !.ran = "none"]

\* background, sendTaskToSidepanel: the task is stored and, 300 ms after the
\* panel has opened, sent as EXECUTE_TASK (the panel is mounted throughout).
Handoff(task) ==
    /\ task \notin panel.handed
    /\ Cardinality(panel.handed) < MaxHanded
    /\ PanelStep([Idle EXCEPT !.pendingTask = task, !.handed = @ \cup {task},
                              !.sending = @ \cup {task}])

\* EXECUTE_TASK arrives: the task is run by a timer 100 ms later.
TaskMessage(task) ==
    /\ task \in panel.sending
    /\ PanelStep([Idle EXCEPT !.pendingTaskChecked = TRUE, !.timers = @ \cup {task},
                              !.sending = @ \ {task}, !.acks = @ \cup {task}])

\* background: the promise of the delivered message resolves
Delivered(task) ==
    /\ task \in panel.acks
    /\ PanelStep([Idle EXCEPT !.pendingTask = "none", !.acks = @ \ {task}])

TaskTimer(task, valid) ==
    /\ task \in panel.timers
    /\ PanelStep(executeTask([Idle EXCEPT !.timers = @ \ {task}], task, valid))

\* The answer to GET_PENDING_TASK: the background hands out the stored task
\* and forgets it; the panel executes it.
PollDone(valid) ==
    /\ panel.polling
    /\ LET task == panel.pendingTask
           p == [Idle EXCEPT !.polling = FALSE, !.pendingTaskChecked = TRUE,
                             !.pendingTask = "none"]
       IN  PanelStep(IF task \in {"none", "ask_empty"} THEN p
                     ELSE executeTask(p, task, valid))

\* The user sends a message: the handler reads chatLoading of the render it
\* was created in; its state update is rendered before the event ends.
handleSendMessage(valid) ==
    LET sent == IF panel.chatLoading THEN Idle ELSE Render(sendMessage(Idle, FALSE), valid)
    IN  /\ sent.running <= MaxRunning
        /\ PanelStep(sent)

\* A render scheduled by a state update made outside an event handler.
PanelRender(valid) ==
    /\ panel.isLoading # panel.chatLoading
    /\ PanelStep(Render(Idle, valid))

\* A chat request settles: finally { setIsLoading(false) }.  The render of
\* its loading state was scheduled when it started and has run by then.
ChatDone ==
    /\ panel.running > 0
    /\ ~(panel.isLoading /\ ~panel.chatLoading)
    /\ PanelStep([Idle EXCEPT !.running = @ - 1, !.isLoading = FALSE])

\* The page content arrives and is rendered.
PageLoaded(valid) ==
    /\ ~panel.pageContent
    /\ PanelStep(Render([Idle EXCEPT !.pageContent = TRUE], valid))

\* The user switches to another tab: the page content is cleared and fetched
\* again, and resetPendingState drops the lock and the queued task.
TabSwitch ==
    /\ panel.pageContent \/ panel.taskExecutingRef
          \/ panel.pendingExecuteTaskRef # "none"
    /\ PanelStep([Idle EXCEPT !.pageContent = FALSE, !.pendingTaskChecked = FALSE,
                              !.taskExecutingRef = FALSE,
                              !.pendingExecuteTaskRef = "none"])

InitPanel ==
    /\ tagName = PageTags
    /\ parentElement = PageParents
    /\ innerText = PageTexts
    /\ after = [x \in Nodes |-> <<>>]
    /\ storage = Settings("Control", "key")
    /\ translateModeActive = FALSE
    /\ currentHoverElement = Null
    /\ translatingElement = Null
    /\ translateShortcut = "Control"
    /\ providerConfig = "null"
    /\ configLoaded = FALSE
    /\ translatedTexts = <<>>
    /\ shortcutPressTimer = FALSE
    /\ timers = [pending |-> 0, started |-> FALSE]
    /\ firstInteraction = 0
    /\ loads = 1
    /\ waiters = 0
    /\ flights = EmptyBag
    /\ selection = NoSelection
    /\ keysDown = {}
    /\ armedKey = ""
    /\ last = <<>>
    /\ located = [start |-> Null, result |-> Null]
    /\ stream = NoStream
    /\ panel = PanelMounted
    /\ storageService = StorageService(<<>>)

NextPanel ==
    \/ \E task \in TaskTypes : Handoff(task)
    \/ \E task \in TaskTypes : TaskMessage(task)
    \/ \E task \in TaskTypes : Delivered(task)
    \/ \E task \in TaskTypes, valid \in BOOLEAN : TaskTimer(task, valid)
    \/ \E valid \in BOOLEAN : PollDone(valid)
    \/ \E valid \in BOOLEAN : handleSendMessage(valid)
    \/ \E valid \in BOOLEAN : PanelRender(valid)
    \/ ChatDone
    \/ \E valid \in BOOLEAN : PageLoaded(valid)
    \/ TabSwitch

SpecPanel == InitPanel /\ [][NextPanel]_vars

\* Every render that is scheduled runs and every request settles; the user
\* need not send anything or switch tabs.
SpecPanelFair ==
    /\ SpecPanel
    /\ WF_vars(\E valid \in BOOLEAN : PanelRender(valid))
    /\ WF_vars(ChatDone)

----------------------------------------------------------------------------
\* Settings specification: the calls of the settings service, one at a time,
\* starting with nothing stored or with the item of an old version.

ServiceCall(svc) ==
    /\ storageService' = svc
    /\ UNCHANGED <<pageVars, after, scriptVars, asyncVars, envVars, last, located,
                   stream, panel>>

\* a call that leaves the item and the default object as they are is no step
UpdateProviderConfig(config) ==
    /\ updateProviderConfig(storageService, config) # storageService
    /\ ServiceCall(updateProviderConfig(storageService, config))
SwitchProvider(provider) ==
    /\ switchProvider(storageService, provider) # storageService
    /\ ServiceCall(switchProvider(storageService, provider))
UpdateTheme(theme) ==
    /\ updateTheme(storageService, theme) # storageService
    /\ ServiceCall(updateTheme(storageService, theme))
UpdateEnableReasoning(enabled) ==
    /\ updateEnableReasoning(storageService, enabled) # storageService
    /\ ServiceCall(updateEnableReasoning(storageService, enabled))
UpdateTranslateShortcut(shortcut) ==
    /\ updateTranslateShortcut(storageService, shortcut) # storageService
    /\ ServiceCall(updateTranslateShortcut(storageService, shortcut))
ClearSettings ==
    /\ storageService.sync # <<>>
    /\ ServiceCall(clearSettings(storageService))

InitStorage ==
    /\ tagName = PageTags
    /\ parentElement = PageParents
    /\ innerText = PageTexts
    /\ after = [x \in Nodes |-> <<>>]
    /\ storage = Settings("Control", "key")
    /\ translateModeActive = FALSE
    /\ currentHoverElement = Null
    /\ translatingElement = Null
    /\ translateShortcut = "Control"
    /\ providerConfig = "null"
    /\ configLoaded = FALSE
    /\ translatedTexts = <<>>
    /\ shortcutPressTimer = FALSE
    /\ timers = [pending |-> 0, started |-> FALSE]
    /\ firstInteraction = 0
    /\ loads = 1
    /\ waiters = 0
    /\ flights = EmptyBag
    /\ selection = NoSelection
    /\ keysDown = {}
    /\ armedKey = ""
    /\ last = <<>>
    /\ located = [start |-> Null, result |-> Null]
    /\ stream = NoStream
    /\ panel = "closed"
    /\ \E sync \in {<<>>, <<LegacyItem(ProviderConfig("anthropic", "k1"), "dark")>>} :
         storageService = StorageService(sync)

NextStorage ==
    \/ \E p \in Providers : UpdateProviderConfig(ProviderConfig(p, "k1"))
    \/ \E p \in Providers : SwitchProvider(p)
    \/ \E t \in Themes : UpdateTheme(t)
    \/ \E b \in BOOLEAN : UpdateEnableReasoning(b)
    \/ \E k \in Shortcuts : UpdateTranslateShortcut(k)
    \/ ClearSettings

SpecStorage == InitStorage /\ [][NextStorage]_vars

\* C40: a call of clearSettings leaves the service in a state in which
\* getSettings returns the pristine default settings, whatever calls of the
\* update operations were made before.
ClearRestoresDefaults ==
    [][ClearSettings =>
          getSettings(storageService').settings = DEFAULT_SETTINGS]_vars

\* C25: a task other than 'ask' that executeTask runs starts only while no
\* other task and no chat request is running.
TaskRunsAlone ==
    [][panel'.ran = "run" => panel.running = 0]_vars

\* the walk of the last locator call has reached a container element
ReachedContainer ==
    /\ IsPage(located.start) /\ IsPage(Reached)
    /\ TagOf(Reached) \in containerElements

\* C26 as stated: when the walk reaches a container element whose text has
\* at least 500 and fewer than 5000 characters, findBestParagraph returns it
\* if and only if it has at most one block-semantic direct child.
MidContainerReturnedIffLeaf ==
    (/\ ReachedContainer
     /\ Length(InnerTextOf(Reached)) >= SOFT_CAP
     /\ Length(InnerTextOf(Reached)) < HARD_CAP)
    => (located.result = Reached <=> Cardinality(BlockSemanticChildren(Reached)) <= 1)

\* C26, amended: when the walk reaches a container element whose trimmed text
\* has at least 500 and fewer than 5000 characters, findBestParagraph returns
\* it if and only if at most one of its direct children has a tag of the
\* block list of hasSignificantBlockChildren; otherwise the result is that
\* of the walk from its parent.
MidContainerReturnedIffFewBlocks ==
    (/\ ReachedContainer
     /\ Length(Trim(InnerTextOf(Reached))) >= SOFT_CAP
     /\ Length(Trim(InnerTextOf(Reached))) < HARD_CAP)
    => IF Cardinality({c \in ChildrenOf(Cur, Reached) : TagOf(c) \in blockTags}) <= 1
       THEN located.result = Reached
       ELSE /\ located.result # Reached
            /\ located.result = ParagraphWalk(Cur, ParentOf(Cur, Reached))

\* C26 witness: the locator was called on a container with 500 characters of
\* text and two block children, none of them a block paragraph, and went on
\* to its parent.
LocatedMidContainerWithBlocks ==
    /\ IsPage(located.start) /\ TagOf(located.start) \in containerElements
    /\ Length(Trim(InnerTextOf(located.start))) = SOFT_CAP
    /\ Cardinality({c \in ChildrenOf(Cur, located.start) : TagOf(c) \in blockTags}) = 2
    /\ BlockSemanticChildren(located.start) = {}
    /\ located.result # located.start

\* C27: a call of checkAndTranslate whose target text is not cached, made
\* while an overlay sits right behind the target's insertion point
\* (findBlockParent of the target's element), inserts no overlay and sends no
\* request.
NoAttemptBehindShownOverlay ==
    [][\A i \in DOMAIN last' :
          LET c == last'[i]
          IN  (/\ c.target # NoTarget /\ ~c.hit
               /\ NextOverlay(Cur, findBlockParent(Cur, c.target.element)) # Null)
              => (c.made = Null /\ ~c.fetch)]_vars

\* the content fragments of the well-formed event lines of the response
\* body, in arrival order
SentFragments ==
    LET sent == SelectSeq(stream.lines, LAMBDA l : IsEvent(l) /\ HasContent(l))
    IN  [i \in 1..Len(sent) |-> sent[i].content]

\* C28: each call of the chunk callback of translateWithStream carries the
\* concatenation of the fragments received so far, and when the stream has
\* ended the returned text, which checkAndTranslate stores in the cache, is
\* the concatenation of all fragments of the response in order.
UpdatesCarryAllFragments ==
    stream.client = "translate" =>
        /\ Len(ContentCalls) <= Len(SentFragments)
        /\ \A i \in 1..Len(ContentCalls) :
              ContentCalls[i].text = Concat(SubSeq(SentFragments, 1, i))
        /\ stream.returned => stream.content = Concat(SentFragments)

\* C29: when the activation timer fires while no hovered element is known
\* and none can be recovered, translate mode becomes active and a pointermove
\* listener is armed without a call of checkAndTranslate; a pointer move onto
\* an element while translate mode is active calls checkAndTranslate and
\* removes the armed listeners; a pointer move while translate mode is
\* inactive removes them without a call.
FirstInteractionListener ==
    /\ [][(~translateModeActive /\ currentHoverElement = Null /\ TimerFire(Null))
            => /\ translateModeActive'
               /\ firstInteraction' = firstInteraction + 1
               /\ last' = <<>> /\ waiters' = waiters]_vars
    /\ [][\A e \in HoverChoices :
            (firstInteraction > 0 /\ translateModeActive /\ PointerMove(e))
            => /\ firstInteraction' = 0
               /\ currentHoverElement' = e
               /\ Len(last') >= 1 \/ waiters' > waiters]_vars
    /\ [][\A e \in HoverChoices :
            (firstInteraction > 0 /\ ~translateModeActive /\ PointerMove(e))
            => /\ firstInteraction' = 0
               /\ last' = <<>> /\ waiters' = waiters
               /\ flights' = flights /\ after' = after]_vars

\* C29 witness: the armed listener has run on a pointer move in translate
\* mode: the listener is gone and checkAndTranslate was called by the
\* pointer tracking and by the listener.
FirstInteractionTriggered ==
    /\ translateModeActive /\ firstInteraction = 0
    /\ currentHoverElement # Null
    /\ Len(last) = 2

\* C30: a call of checkAndTranslate made while the selection has text, its
\* range can be read and it lies outside every overlay resolves a selection
\* target with the selection's text, whatever element is hovered; and a call
\* resolves an element target only while the selection has no text.
SelectionBeforeHover ==
    \A c \in Calls :
        /\ (/\ Length(selection.text) > 0 /\ ~selection.throws
            /\ IsPage(selection.node))
           => (c.target.type = "selection" /\ c.target.text = Trim(selection.text))
        /\ c.target.type = "element" => Length(selection.text) = 0

\* C31: every element findBestParagraph returns has a block-paragraph or a
\* container tag and is not the document body; an element with an inline tag
\* or with a tag of none of the three lists is never returned.
ResultIsParagraphOrContainer ==
    located.result # Null =>
        /\ TagOf(located.result) \in blockParagraphs \cup containerElements
        /\ located.result # Body

\* C31 witness: the locator was called on an inline element whose parent has
\* a tag of none of the three lists, and returned an element above them.
LocatedAboveInlineAndUnlisted ==
    /\ IsPage(located.start) /\ TagOf(located.start) \in inlineElements
    /\ TagOf(ParentOf(Cur, located.start))
          \notin blockParagraphs \cup containerElements \cup inlineElements
    /\ located.result # Null
    /\ located.result # ParentOf(Cur, located.start)

\* C32: a pending activation timer never coexists with active translate
\* mode, at most one timer is pending and it is the one the handle names,
\* and a key-down of the shortcut while a timer is pending or translate mode
\* is active starts no timer and changes neither the timer nor the mode.
ActivationMachine ==
    /\ [](/\ timers.pending <= 1
          /\ shortcutPressTimer <=> timers.pending = 1
          /\ ~(translateModeActive /\ timers.pending > 0))
    /\ [][\A k \in KeyChoices :
            (/\ shortcutPressTimer \/ translateModeActive
             /\ isOnlyShortcutKey(KeyEvent(k, keysDown \cup {k}), translateShortcut)
             /\ KeyDown(k))
            => /\ ~timers'.started
               /\ timers'.pending = timers.pending
               /\ translateModeActive' = translateModeActive]_vars

\* C32 witness: a timer is pending, the key that started it is still held
\* and a later step (such as the repeated key-down of the held key) has left
\* the timer as it was.
PendingWhileKeyHeld ==
    /\ shortcutPressTimer /\ timers.pending = 1 /\ ~timers.started
    /\ ~translateModeActive
    /\ armedKey \in keysDown

\* C33: a task the background hands over once is run at most once by
\* executeTask, whether it arrives as EXECUTE_TASK, through the
\* GET_PENDING_TASK poll, or both.
HandedTaskRunsOnce == \A t \in TaskTypes : panel.runs[t] <= 1

\* C34: a summarize_page task that executeTask has queued because the page
\* content was not there is run in the step in which the page content has
\* loaded.
QueuedTaskRunsOnLoad ==
    [][(/\ panel.pendingExecuteTaskRef = "summarize_page"
        /\ ~panel.pageContent /\ panel'.pageContent)
       => panel'.ran = "run"]_vars

\* C35: whenever executeTask has taken the execution lock, the lock is
\* released again at some later time.
LockEventuallyReleased ==
    panel.taskExecutingRef ~> ~panel.taskExecutingRef

\* C36: translate mode is active only while the modifier whose key-down
\* activated it is held: after that key was released the machine is inactive,
\* also when a settings update changed the shortcut while the key was down.
ActiveOnlyWhileModifierHeld ==
    translateModeActive => armedKey \in keysDown

\* C37: when a request ends, by completing or by failing, the overlay that
\* was inserted for it, if it is still in the page, is no longer loading.
OverlayNotLoadingWhenSettled ==
    [][\A f \in DOMAIN flights :
          ((FlightDone(f) \/ FlightFail(f)) /\ Attached(Cur, f.box))
          => \/ f.box.ov > Len(after'[f.box.node])
             \/ ~after'[f.box.node][f.box.ov].loading]_vars

\* C38: when readSSEStream has read the body to its end, the events it has
\* delivered to its callback are the event lines of the body, each once and
\* in order, wherever the read boundaries fall.
DeliveryIndependentOfChunking ==
    stream.client = "translate" /\ stream.returned =>
        stream.delivered = SelectSeq(stream.lines, IsEvent)

\* the positions, among the calls of the chunk callback, of the opening
\* marker, of the closing marker and of the reasoning fragments
OpeningCalls ==
    {i \in DOMAIN stream.calls :
        stream.calls[i].kind = "mark" /\ Head(stream.calls[i].text) = "<think>"}
ClosingCalls ==
    {i \in DOMAIN stream.calls :
        stream.calls[i].kind = "mark" /\ Head(stream.calls[i].text) # "<think>"}
ReasoningCalls ==
    {i \in DOMAIN stream.calls : stream.calls[i].kind = "reasoning"}

\* C39: when a streamed response with reasoning enabled has been read to its
\* end, the calls of the chunk callback hold the opening marker once if a
\* reasoning fragment was processed and not at all otherwise, one closing
\* marker after it, and every reasoning fragment between the two markers.
ReasoningBetweenMarkers ==
    (stream.client = "openai" /\ stream.enableReasoning /\ stream.returned) =>
        LET arrived == \E i \in DOMAIN stream.delivered :
                           stream.delivered[i].reasoning # <<>>
        IN  /\ Cardinality(OpeningCalls) = IF arrived THEN 1 ELSE 0
            /\ arrived =>
                 /\ Cardinality(ClosingCalls) = 1
                 /\ \A o \in OpeningCalls, c \in ClosingCalls :
                       /\ o < c
                       /\ \A r \in ReasoningCalls : o < r /\ r < c

====
